---- MODULE Spec2Model ----
(***************************************************************************)
(* The immutable view state (Essence) of the pivot data explorer: its      *)
(* construction, its hash codec and its change* transitions.               *)
(*                                                                         *)
(* Every class is a record; an absent object (null) is the record Null, an *)
(* absent string is the string "undefined".  The collaborators whose code  *)
(* is not among the sources (DataSource, Filter, Splits, Colors,           *)
(* Highlight, Manifest, Resolve) follow their contracts.                   *)
(***************************************************************************)
EXTENDS Integers, Sequences, FiniteSets, TLC

VARIABLES essence, base, op, arg, outcome, steps

vars == <<essence, base, op, arg, outcome, steps>>

\* ------------------------------------------------------------------------
\* Bounds of the model
\* ------------------------------------------------------------------------

\* Longest split list a caller passes to changeSplits.
MaxSplits == 2

\* Number of operations applied after the first construction.
MaxSteps == 2

\* ------------------------------------------------------------------------
\* Plain values
\* ------------------------------------------------------------------------

HASH_VERSION == 1

Null == [null |-> TRUE]

Undefined == "undefined"

NoAttribute == "none"

Thrown == [thrown |-> TRUE]

IsEssence(x) == "dataSource" \in DOMAIN x

RECURSIVE SeqFilterNames(_, _)
\* keeps, in order, the names of s that belong to the set keep
SeqFilterNames(s, keep) ==
  IF s = <<>> THEN <<>>
  ELSE IF Head(s) \in keep THEN <<Head(s)>> \o SeqFilterNames(Tail(s), keep)
       ELSE SeqFilterNames(Tail(s), keep)

Range(s) == {s[i] : i \in 1..Len(s)}

\* OrderedSet(array): first occurrence of every element, in order
RECURSIVE OrderedSet(_)
OrderedSet(s) ==
  IF s = <<>> THEN <<>>
  ELSE LET init == OrderedSet(SubSeq(s, 1, Len(s) - 1))
           last == s[Len(s)]
       IN IF last \in Range(init) THEN init ELSE Append(init, last)

OrderedSetAdd(s, x) == IF x \in Range(s) THEN s ELSE Append(s, x)

OrderedSetRemove(s, x) == SeqFilterNames(s, Range(s) \ {x})

TimeRange(start, end) == [start |-> start, end |-> end]

\* ------------------------------------------------------------------------
\* FilterClause (src/common/models/filter-clause/filter-clause.ts)
\* ------------------------------------------------------------------------

FilterClause(expression, values, exclude, required) ==
  [expression |-> expression, values |-> values,
   exclude |-> exclude, required |-> required]

FilterClause_toJS(c) ==
  [expression |-> c.expression, values |-> c.values]
    @@ (IF c.exclude THEN [exclude |-> TRUE] ELSE <<>>)
    @@ (IF c.required THEN [required |-> TRUE] ELSE <<>>)

FilterClause_fromJS(js) ==
  FilterClause(js.expression, js.values,
               "exclude" \in DOMAIN js /\ js.exclude,
               "required" \in DOMAIN js /\ js.required)

FilterClause_equals(c, d) ==
  /\ c.expression = d.expression
  /\ c.values = d.values
  /\ c.exclude = d.exclude
  /\ c.required = d.required

\* ------------------------------------------------------------------------
\* Filter: an ordered list of clauses, at most one per expression
\* ------------------------------------------------------------------------

Filter(clauses) == [clauses |-> clauses]

Filter_EMPTY == Filter(<<>>)

ClauseIndex(f, expression) ==
  LET hits == {i \in 1..Len(f.clauses) : f.clauses[i].expression = expression}
  IN IF hits = {} THEN 0 ELSE CHOOSE i \in hits : \A j \in hits : i <= j

Filter_setClause(f, c) ==
  LET i == ClauseIndex(f, c.expression)
  IN IF i = 0 THEN Filter(Append(f.clauses, c))
     ELSE Filter([f.clauses EXCEPT ![i] = c])

Filter_getTimeRange(f, attribute) ==
  LET i == ClauseIndex(f, attribute)
  IN IF i = 0 THEN Null
     ELSE CHOOSE v \in f.clauses[i].values : TRUE

Filter_setTimeRange(f, attribute, timeRange) ==
  Filter_setClause(f, FilterClause(attribute, {timeRange}, FALSE, FALSE))

RECURSIVE ConstrainClauses(_, _, _, _)
ConstrainClauses(clauses, dimensions, timeAttribute, oldTimeAttribute) ==
  IF clauses = <<>> THEN <<>>
  ELSE LET c == Head(clauses)
           rest == ConstrainClauses(Tail(clauses), dimensions,
                                    timeAttribute, oldTimeAttribute)
       IN IF c.expression \in Range(dimensions) THEN <<c>> \o rest
          ELSE IF /\ timeAttribute # NoAttribute
                  /\ oldTimeAttribute # NoAttribute
                  /\ oldTimeAttribute = c.expression
               THEN <<FilterClause(timeAttribute, c.values, FALSE, FALSE)>> \o rest
               ELSE rest

Filter_constrainToDimensions(f, dimensions, timeAttribute, oldTimeAttribute) ==
  Filter(ConstrainClauses(f.clauses, dimensions, timeAttribute, oldTimeAttribute))

RECURSIVE Filter_applyDelta(_, _)
Filter_applyDelta(f, delta) ==
  IF delta.clauses = <<>> THEN f
  ELSE Filter_applyDelta(Filter_setClause(f, Head(delta.clauses)),
                         Filter(Tail(delta.clauses)))

Filter_toJS(f) == [i \in 1..Len(f.clauses) |-> FilterClause_toJS(f.clauses[i])]

Filter_fromJS(js) == Filter([i \in 1..Len(js) |-> FilterClause_fromJS(js[i])])

Filter_equals(f, g) ==
  /\ Len(f.clauses) = Len(g.clauses)
  /\ \A i \in 1..Len(f.clauses) : FilterClause_equals(f.clauses[i], g.clauses[i])

\* ------------------------------------------------------------------------
\* Splits: an ordered list of split combines (expression, bucket)
\* ------------------------------------------------------------------------

NoBucket == [none |-> TRUE]

SplitCombine(expression, bucket) == [expression |-> expression, bucket |-> bucket]

SplitCombine_fromExpression(expression) == SplitCombine(expression, NoBucket)

Splits(splitCombines) == [splitCombines |-> splitCombines]

Splits_EMPTY == Splits(<<>>)

Splits_fromSplitCombine(sc) == Splits(<<sc>>)

\* the split goes to the end, in place of a split on the same expression
Splits_addSplit(splits, sc) ==
  Splits(Append(SelectSeq(splits.splitCombines,
                          LAMBDA x : x.expression # sc.expression), sc))

Splits_removeSplit(splits, sc) ==
  Splits(SelectSeq(splits.splitCombines, LAMBDA x : x # sc))

\* the bucket a time split gets from the time range it is bound to
Granularity(timeRange) == [duration |-> timeRange.end - timeRange.start]

Splits_updateWithTimeRange(splits, timeAttribute, timeRange, force) ==
  IF timeRange = Null THEN splits
  ELSE Splits([i \in 1..Len(splits.splitCombines) |->
         LET sc == splits.splitCombines[i]
         IN IF sc.expression # timeAttribute THEN sc
            ELSE IF sc.bucket # NoBucket /\ ~force THEN sc
            ELSE SplitCombine(sc.expression, Granularity(timeRange))])

RECURSIVE ConstrainSplitCombines(_, _)
ConstrainSplitCombines(scs, dimensions) ==
  IF scs = <<>> THEN <<>>
  ELSE IF Head(scs).expression \in Range(dimensions)
       THEN <<Head(scs)>> \o ConstrainSplitCombines(Tail(scs), dimensions)
       ELSE ConstrainSplitCombines(Tail(scs), dimensions)

Splits_constrainToDimensions(splits, dimensions) ==
  Splits(ConstrainSplitCombines(splits.splitCombines, dimensions))

SplitCombine_toJS(sc) ==
  [expression |-> sc.expression]
    @@ (IF sc.bucket # NoBucket THEN [bucketAction |-> sc.bucket] ELSE <<>>)

SplitCombine_fromJS(js) ==
  SplitCombine(js.expression,
               IF "bucketAction" \in DOMAIN js THEN js.bucketAction ELSE NoBucket)

Splits_toJS(splits) ==
  [i \in 1..Len(splits.splitCombines) |-> SplitCombine_toJS(splits.splitCombines[i])]

Splits_fromJS(js) == Splits([i \in 1..Len(js) |-> SplitCombine_fromJS(js[i])])

Splits_equals(s, t) == s.splitCombines = t.splitCombines

\* ------------------------------------------------------------------------
\* Colors and Highlight
\* ------------------------------------------------------------------------

Colors(dimension) == [dimension |-> dimension]

Colors_toJS(colors) == [dimension |-> colors.dimension]

Colors_fromJS(js) == Colors(js.dimension)

Highlight(owner, delta) == [owner |-> owner, delta |-> delta]

Highlight_applyToFilter(h, f) == Filter_applyDelta(f, h.delta)

Highlight_constrainToDimensions(h, dimensions, timeAttribute) ==
  Highlight(h.owner,
            Filter_constrainToDimensions(h.delta, dimensions, timeAttribute, NoAttribute))

Highlight_toJS(h) == [owner |-> h.owner, delta |-> Filter_toJS(h.delta)]

Highlight_fromJS(js) == Highlight(js.owner, Filter_fromJS(js.delta))

\* ------------------------------------------------------------------------
\* DataSource: the catalog entries of the model
\* ------------------------------------------------------------------------

DataSource_getDimension(ds, name) == name \in Range(ds.dimensions)

DataSource_getMeasure(ds, name) == name \in Range(ds.measures)

\* defaultDuration.move(now, timezone, -1) .. now
DataSource_defaultTimeRange(ds) ==
  TimeRange(ds.maxTime - ds.defaultDuration, ds.maxTime)

Value(v) == [v |-> v]

RequiredD1 == FilterClause("d1", {Value("x")}, FALSE, TRUE)

RequiredD2 == FilterClause("d2", {Value("y")}, FALSE, TRUE)

\* "A" as the catalog first has it: a time attribute, one required clause
DataSourceA1 ==
  [name |-> "A", dimensions |-> <<"time", "d1", "d2">>,
   measures |-> <<"m1", "m2", "m3">>, timeAttribute |-> "time",
   requiredFilter |-> Filter(<<RequiredD1>>), defaultFilter |-> Filter_EMPTY,
   defaultTimezone |-> "Etc/UTC", defaultDuration |-> 1, maxTime |-> 3,
   defaultSplitDimension |-> "time", defaultPinnedDimensions |-> <<"d1">>,
   defaultSortMeasure |-> "m1"]

\* "A" with its content updated: d2 and m2 are gone, the measures reordered
DataSourceA2 ==
  [DataSourceA1 EXCEPT !.dimensions = <<"time", "d1">>,
                       !.measures = <<"m3", "m1">>,
                       !.defaultSortMeasure = "m3"]

\* "B": no time attribute, five measures, two required clauses
DataSourceB1 ==
  [name |-> "B", dimensions |-> <<"d1", "d2">>,
   measures |-> <<"m2", "m1", "m3", "m4", "m5">>, timeAttribute |-> NoAttribute,
   requiredFilter |-> Filter(<<RequiredD1, RequiredD2>>), defaultFilter |-> Filter_EMPTY,
   defaultTimezone |-> "Etc/UTC", defaultDuration |-> 1, maxTime |-> 3,
   defaultSplitDimension |-> Undefined, defaultPinnedDimensions |-> <<>>,
   defaultSortMeasure |-> "m2"]

\* "B" with its content updated
DataSourceB2 == [DataSourceB1 EXCEPT !.dimensions = <<"d1">>]

\* a dataset no catalog knows
DataSourceU == [DataSourceB1 EXCEPT !.name = "U"]

DataSources == <<DataSourceA1, DataSourceB1>>

DataSourceInputs ==
  {DataSourceA1, DataSourceA2, DataSourceB1, DataSourceB2, DataSourceU}

\* a lookup that falls back to the first entry
FindDataSource_OrFirst(dataSources, name) ==
  LET hits == {i \in 1..Len(dataSources) : dataSources[i].name = name}
  IN IF hits = {} THEN dataSources[1]
     ELSE dataSources[CHOOSE i \in hits : \A j \in hits : i <= j]

\* dataSources.find((ds) => ds.name === name), Null when there is none
FindDataSource(dataSources, name) ==
  LET hits == {i \in 1..Len(dataSources) : dataSources[i].name = name}
  IN IF hits = {} THEN Null
     ELSE dataSources[CHOOSE i \in hits : \A j \in hits : i <= j]

\* ------------------------------------------------------------------------
\* Manifest and Resolve: the visualization catalog and its verdicts
\* ------------------------------------------------------------------------

Resolve(score, state, adjustment) ==
  [score |-> score, state |-> state, adjustment |-> adjustment]

Resolve_NEVER == Resolve(-1, "never", Null)

Resolve_ready(score) == Resolve(score, "ready", Null)

Resolve_manual(score) == Resolve(score, "manual", Null)

Resolve_automatic(score, adjustment) == Resolve(score, "automatic", adjustment)

Resolve_isReady(r) == r.state = "ready"

Resolve_isManual(r) == r.state = "manual"

Resolve_isAutomatic(r) == r.state = "automatic"

\* negative when r1 ranks before r2
Resolve_compare(r1, r2) == r2.score - r1.score

Adjustment(splits, colors) == [splits |-> splits, colors |-> colors]

Manifest(id) == [id |-> id]

Visualizations == <<Manifest("totals"), Manifest("table"), Manifest("line"), Manifest("bar")>>

HasSplitOn(splits, expression) ==
  \E i \in 1..Len(splits.splitCombines) : splits.splitCombines[i].expression = expression

OnlySplitsOn(splits, expression) ==
  Splits(SelectSeq(splits.splitCombines, LAMBDA sc : sc.expression = expression))

FirstOtherSplit(splits, expression) ==
  Head(SelectSeq(splits.splitCombines, LAMBDA sc : sc.expression # expression))

\* totals shows no split; table needs a split; line needs the time split
\* alone and turns a second split into colors; bar wants no colors and
\* exactly one split, and only suggests dropping the colors; on one split
\* table and bar rank the same
Manifest_handleCircumstance(visualization, dataSource, splits, colors, current) ==
  LET n == Len(splits.splitCombines)
      time == dataSource.timeAttribute
  IN CASE visualization.id = "totals" ->
            IF n = 0 THEN Resolve_ready(10)
            ELSE Resolve_automatic(3, Adjustment(Splits_EMPTY, Null))
       [] visualization.id = "table" ->
            IF n = 0 THEN Resolve_manual(0)
            ELSE Resolve_ready(IF current THEN 6 ELSE 5)
       [] visualization.id = "line" ->
            IF time = NoAttribute THEN Resolve_NEVER
            ELSE IF ~HasSplitOn(splits, time) THEN Resolve_manual(0)
            ELSE IF n = 1 THEN Resolve_ready(IF current THEN 8 ELSE 7)
            ELSE Resolve_automatic(4,
                   Adjustment(OnlySplitsOn(splits, time),
                              Colors(FirstOtherSplit(splits, time).expression)))
       [] OTHER ->
            IF colors # Null THEN Resolve_automatic(2, Adjustment(splits, Null))
            ELSE IF n = 1 THEN Resolve_ready(IF current THEN 6 ELSE 5)
            ELSE Resolve_manual(0)

\* ------------------------------------------------------------------------
\* Essence: construction
\* ------------------------------------------------------------------------

constrainDimensions(dimensions, dataSource) ==
  SeqFilterNames(dimensions, {d \in Range(dimensions) : DataSource_getDimension(dataSource, d)})

\* a constraint that hands the names back in the order of the dataset
constrainMeasures_DataSourceOrder(measures, dataSource) ==
  SeqFilterNames(dataSource.measures, Range(measures))

constrainMeasures(measures, dataSource) ==
  SeqFilterNames(measures, {m \in Range(measures) : DataSource_getMeasure(dataSource, m)})

\* an insertion that goes before the entries of the same rank
RECURSIVE InsertSorted_BeforeEquals(_, _)
InsertSorted_BeforeEquals(sorted, vr) ==
  IF sorted = <<>> THEN <<vr>>
  ELSE IF Resolve_compare(Head(sorted).resolve, vr.resolve) < 0
       THEN <<Head(sorted)>> \o InsertSorted_BeforeEquals(Tail(sorted), vr)
       ELSE <<vr>> \o sorted

\* Array.prototype.sort with a comparator, as a stable insertion sort
RECURSIVE InsertSorted(_, _)
InsertSorted(sorted, vr) ==
  IF sorted = <<>> THEN <<vr>>
  ELSE IF Resolve_compare(Head(sorted).resolve, vr.resolve) <= 0
       THEN <<Head(sorted)>> \o InsertSorted(Tail(sorted), vr)
       ELSE <<vr>> \o sorted

RECURSIVE SortVisAndResolves(_)
SortVisAndResolves(vrs) ==
  IF vrs = <<>> THEN <<>>
  ELSE InsertSorted(SortVisAndResolves(SubSeq(vrs, 1, Len(vrs) - 1)), vrs[Len(vrs)])

getBestVisualization(visualizations, dataSource, splits, colors, currentVisualization) ==
  LET visAndResolves ==
        [i \in 1..Len(visualizations) |->
           [visualization |-> visualizations[i],
            resolve |-> Manifest_handleCircumstance(visualizations[i], dataSource, splits,
                          colors, visualizations[i] = currentVisualization)]]
  IN SortVisAndResolves(visAndResolves)[1]

\* a resolution that applies the adjustment without resolving again
Essence_resolve_Once(visualization, dataSource, splits0, colors0) ==
  LET first == Manifest_handleCircumstance(visualization, dataSource, splits0, colors0, TRUE)
  IN IF Resolve_isAutomatic(first)
     THEN [splits |-> first.adjustment.splits, colors |-> first.adjustment.colors,
           visResolve |-> first]
     ELSE [splits |-> splits0, colors |-> colors0, visResolve |-> first]

\* the constructor's resolution of its visualization: the verdict with the
\* splits and colors it leaves, or Thrown
Essence_resolve(visualization, dataSource, splits0, colors0) ==
  LET first == Manifest_handleCircumstance(visualization, dataSource, splits0, colors0, TRUE)
      adjusted == Resolve_isAutomatic(first)
      splits == IF adjusted THEN first.adjustment.splits ELSE splits0
      colors == IF adjusted THEN first.adjustment.colors ELSE colors0
      visResolve ==
        IF adjusted
        THEN Manifest_handleCircumstance(visualization, dataSource, splits, colors, TRUE)
        ELSE first
  IN IF adjusted /\ ~Resolve_isReady(visResolve) THEN Thrown
     ELSE [splits |-> splits, colors |-> colors, visResolve |-> visResolve]

\* new Essence(parameters): the new state, or Thrown
Essence_new(parameters) ==
  IF Len(parameters.dataSources) = 0 THEN Thrown
  ELSE IF parameters.dataSource = Null THEN Thrown
  ELSE
    LET dataSource == parameters.dataSource
        visualization ==
          IF parameters.visualization = Null
          THEN getBestVisualization(parameters.visualizations, dataSource,
                 parameters.splits, parameters.colors, Null).visualization
          ELSE parameters.visualization
        resolved == Essence_resolve(visualization, dataSource,
                                    parameters.splits, parameters.colors)
    IN IF resolved = Thrown THEN Thrown
       ELSE [dataSources |-> parameters.dataSources,
             visualizations |-> parameters.visualizations,
             dataSource |-> dataSource,
             visualization |-> visualization,
             timezone |-> parameters.timezone,
             filter |-> parameters.filter,
             requiredFilter |-> parameters.requiredFilter,
             splits |-> resolved.splits,
             selectedMeasures |-> parameters.selectedMeasures,
             pinnedDimensions |-> parameters.pinnedDimensions,
             colors |-> resolved.colors,
             pinnedSort |-> parameters.pinnedSort,
             compare |-> parameters.compare,
             highlight |-> parameters.highlight,
             visResolve |-> resolved.visResolve]

valueOf(e) ==
  [dataSources |-> e.dataSources, visualizations |-> e.visualizations,
   dataSource |-> e.dataSource, visualization |-> e.visualization,
   timezone |-> e.timezone, filter |-> e.filter,
   requiredFilter |-> e.requiredFilter, splits |-> e.splits,
   selectedMeasures |-> e.selectedMeasures,
   pinnedDimensions |-> e.pinnedDimensions, colors |-> e.colors,
   pinnedSort |-> e.pinnedSort, compare |-> e.compare, highlight |-> e.highlight]

FirstN(s, n) == SubSeq(s, 1, IF Len(s) < n THEN Len(s) ELSE n)

fromDataSource(dataSource, dataSources, visualizations) ==
  LET timezone == dataSource.defaultTimezone
      requiredFilter == dataSource.requiredFilter
      timeAttribute == dataSource.timeAttribute
      filter0 == dataSource.defaultFilter
      filter1 == IF Len(requiredFilter.clauses) # 0
                 THEN Filter_setClause(filter0, requiredFilter.clauses[1])
                 ELSE filter0
      filter == IF timeAttribute # NoAttribute
                THEN Filter_setTimeRange(filter1, timeAttribute,
                                         DataSource_defaultTimeRange(dataSource))
                ELSE filter1
      splits0 == IF /\ dataSource.defaultSplitDimension # Undefined
                    /\ DataSource_getDimension(dataSource, dataSource.defaultSplitDimension)
                 THEN Splits_fromSplitCombine(
                        SplitCombine_fromExpression(dataSource.defaultSplitDimension))
                 ELSE Splits_EMPTY
      splits == IF dataSource.defaultSplitDimension # Undefined /\ timeAttribute # NoAttribute
                THEN Splits_updateWithTimeRange(splits0, timeAttribute,
                       Filter_getTimeRange(filter, timeAttribute), FALSE)
                ELSE splits0
  IN Essence_new(
       [dataSources |-> dataSources, visualizations |-> visualizations,
        dataSource |-> dataSource, visualization |-> Null,
        timezone |-> timezone, filter |-> filter,
        requiredFilter |-> requiredFilter, splits |-> splits,
        selectedMeasures |-> OrderedSet(FirstN(dataSource.measures, 4)),
        pinnedDimensions |-> dataSource.defaultPinnedDimensions,
        colors |-> Null, pinnedSort |-> dataSource.defaultSortMeasure,
        compare |-> Null, highlight |-> Null])

\* ------------------------------------------------------------------------
\* JavaScript values, JSON text and the compressed payload
\* ------------------------------------------------------------------------

JUndefined == [t |-> "undefined"]

JNull == [t |-> "null"]

JString(s) == [t |-> "string", str |-> s]

JNames(a) == [t |-> "array", names |-> a]

JFilter(js) == [t |-> "array", filterJS |-> js]

JSplits(js) == [t |-> "array", splitsJS |-> js]

JColors(js) == [t |-> "object", colorsJS |-> js]

JHighlight(js) == [t |-> "object", highlightJS |-> js]

\* !v
Falsy(v) == v.t \in {"undefined", "null"} \/ (v.t = "string" /\ v.str = "")

\* v || null
OrNull(v) == IF Falsy(v) THEN JNull ELSE v

\* js[field] of an object, array[i] of an array (0-based)
Field(js, name) == IF name \in DOMAIN js THEN js[name] ELSE JUndefined

At(array, i) == IF i + 1 <= Len(array) THEN array[i + 1] ELSE JUndefined

JSON_stringify(v) == [json |-> v]

BadJSON == [bad |-> TRUE]

\* JSON.parse('[' + text + ']'): the array, or Thrown on a syntax error
JSON_parseArray(text) ==
  IF \E i \in 1..Len(text) : "bad" \in DOMAIN text[i] THEN Thrown
  ELSE [array |-> [i \in 1..Len(text) |-> text[i].json]]

\* a '/'-free piece of a hash: plain text, or a piece of base64 payload
Text(s) == [text |-> s]

Base64(text) == [base64 |-> text]

compressToBase64(text) == <<Base64(text)>>

RECURSIVE JoinBase64(_)
JoinBase64(segments) ==
  IF segments = <<>> THEN <<>>
  ELSE Head(segments).base64 \o JoinBase64(Tail(segments))

\* decompressFromBase64(parts.join('/')): null unless the text is base64 payload
decompressFromBase64(segments) ==
  IF \A i \in 1..Len(segments) : "base64" \in DOMAIN segments[i]
  THEN JoinBase64(segments)
  ELSE <<JSON_stringify(JNull)>>

NaN == [nan |-> TRUE]

NumberToString(n) == CASE n = 0 -> "0" [] n = 1 -> "1" [] n = 2 -> "2" [] OTHER -> "9"

\* parseInt(s, 10): the leading digits, NaN when there are none
parseInt(segment) ==
  IF "text" \notin DOMAIN segment THEN NaN
  ELSE CASE segment.text \in {"1", "01", "1x"} -> [n |-> 1]
         [] segment.text \in {"2", "2x"} -> [n |-> 2]
         [] segment.text = "0" -> [n |-> 0]
         [] OTHER -> NaN

SegmentText(segment) == IF "text" \in DOMAIN segment THEN segment.text ELSE "?"

\* ------------------------------------------------------------------------
\* Essence: toJS, toHash, fromJS, fromHash, equals
\* ------------------------------------------------------------------------

toJS(e) ==
  [dataSource |-> JString(e.dataSource.name),
   visualization |-> JString(e.visualization.id),
   timezone |-> JString(e.timezone),
   filter |-> JFilter(Filter_toJS(e.filter)),
   requiredFilter |-> JFilter(Filter_toJS(e.requiredFilter)),
   splits |-> JSplits(Splits_toJS(e.splits)),
   selectedMeasures |-> JNames(e.selectedMeasures),
   pinnedDimensions |-> JNames(e.pinnedDimensions)]
    @@ (IF e.colors # Null THEN [colors |-> JColors(Colors_toJS(e.colors))] ELSE <<>>)
    @@ (IF e.pinnedSort # e.dataSource.defaultSortMeasure
        THEN [pinnedSort |-> JString(e.pinnedSort)] ELSE <<>>)
    @@ (IF e.compare # Null THEN [compare |-> JFilter(Filter_toJS(e.compare))] ELSE <<>>)
    @@ (IF e.highlight # Null
        THEN [highlight |-> JHighlight(Highlight_toJS(e.highlight))] ELSE <<>>)

\* the array toHash fills: seven fixed slots, then colors, compare and
\* highlight at 7, 8 and 9 when set, the slots skipped on the way left empty
CompressedArray(js) ==
  LET length == IF ~Falsy(Field(js, "highlight")) THEN 10
                ELSE IF ~Falsy(Field(js, "compare")) THEN 9
                ELSE IF ~Falsy(Field(js, "colors")) THEN 8
                ELSE 7
      slot(i) == CASE i = 0 -> js.timezone
                   [] i = 1 -> js.filter
                   [] i = 2 -> js.requiredFilter
                   [] i = 3 -> js.splits
                   [] i = 4 -> js.selectedMeasures
                   [] i = 5 -> js.pinnedDimensions
                   [] i = 6 -> Field(js, "pinnedSort")
                   [] i = 7 -> IF ~Falsy(Field(js, "colors")) THEN js.colors ELSE JUndefined
                   [] i = 8 -> IF ~Falsy(Field(js, "compare")) THEN js.compare ELSE JUndefined
                   [] OTHER -> js.highlight
  IN [i \in 1..length |-> slot(i - 1)]

Hash(mark, segments) == [mark |-> mark, segments |-> segments]

toHash(e) ==
  LET js == toJS(e)
      compressed == CompressedArray(js)
      restJSON == [i \in 1..Len(compressed) |-> JSON_stringify(OrNull(compressed[i]))]
  IN Hash(TRUE, <<Text(js.dataSource.str), Text(js.visualization.str),
                  Text(NumberToString(HASH_VERSION))>> \o compressToBase64(restJSON))

\* a lookup that falls back to the first visualization of the catalog
FindVisualization_OrFirst(visualizations, id) ==
  LET hits == {i \in 1..Len(visualizations) : visualizations[i].id = id}
  IN IF hits = {} THEN visualizations[1]
     ELSE visualizations[CHOOSE i \in hits : \A j \in hits : i <= j]

FindVisualization(visualizations, id) ==
  LET hits == {i \in 1..Len(visualizations) : visualizations[i].id = id}
  IN IF hits = {} THEN Null
     ELSE visualizations[CHOOSE i \in hits : \A j \in hits : i <= j]

\* Essence.fromJS: the state, or Thrown
fromJS(parameters, dataSources, visualizations) ==
  LET visualization == FindVisualization(visualizations, parameters.visualization)
      dataSource == FindDataSource(dataSources, parameters.dataSource)
      wellTyped ==
        /\ parameters.timezone.t = "string"
        /\ "filterJS" \in DOMAIN parameters.filter
        /\ "filterJS" \in DOMAIN parameters.requiredFilter
        /\ "splitsJS" \in DOMAIN parameters.splits
        /\ Falsy(parameters.selectedMeasures) \/ "names" \in DOMAIN parameters.selectedMeasures
        /\ Falsy(parameters.pinnedDimensions) \/ "names" \in DOMAIN parameters.pinnedDimensions
        /\ Falsy(parameters.pinnedSort) \/ parameters.pinnedSort.t = "string"
        /\ Falsy(parameters.colors) \/ "colorsJS" \in DOMAIN parameters.colors
        /\ Falsy(parameters.compare) \/ "filterJS" \in DOMAIN parameters.compare
        /\ Falsy(parameters.highlight) \/ "highlightJS" \in DOMAIN parameters.highlight
      names(v) == IF Falsy(v) THEN <<>> ELSE v.names
  IN IF dataSource = Null \/ ~wellTyped THEN Thrown
     ELSE
       LET dimensions == dataSource.dimensions
           timeAttribute == dataSource.timeAttribute
           defaultSortMeasureName == dataSource.defaultSortMeasure
           pinnedSort0 == IF Falsy(parameters.pinnedSort) THEN defaultSortMeasureName
                          ELSE parameters.pinnedSort.str
       IN Essence_new(
            [dataSources |-> dataSources, visualizations |-> visualizations,
             dataSource |-> dataSource, visualization |-> visualization,
             timezone |-> parameters.timezone.str,
             filter |-> Filter_constrainToDimensions(
                          Filter_fromJS(parameters.filter.filterJS),
                          dimensions, timeAttribute, NoAttribute),
             requiredFilter |-> Filter_constrainToDimensions(
                                  Filter_fromJS(parameters.requiredFilter.filterJS),
                                  dimensions, timeAttribute, NoAttribute),
             splits |-> Splits_constrainToDimensions(
                          Splits_fromJS(parameters.splits.splitsJS), dimensions),
             selectedMeasures |->
               constrainMeasures(OrderedSet(names(parameters.selectedMeasures)), dataSource),
             pinnedDimensions |->
               constrainDimensions(OrderedSet(names(parameters.pinnedDimensions)), dataSource),
             colors |-> IF Falsy(parameters.colors) THEN Null
                        ELSE Colors_fromJS(parameters.colors.colorsJS),
             pinnedSort |-> IF DataSource_getMeasure(dataSource, pinnedSort0)
                            THEN pinnedSort0 ELSE defaultSortMeasureName,
             compare |-> IF Falsy(parameters.compare) THEN Null
                         ELSE Filter_constrainToDimensions(
                                Filter_fromJS(parameters.compare.filterJS),
                                dimensions, timeAttribute, NoAttribute),
             highlight |-> IF Falsy(parameters.highlight) THEN Null
                           ELSE Highlight_constrainToDimensions(
                                  Highlight_fromJS(parameters.highlight.highlightJS),
                                  dimensions, timeAttribute)])

\* a length check without its lower end
LegalLength_NoLowerEnd(jsArrayLength) == jsArrayLength <= 9

LegalLength(jsArrayLength) == 6 <= jsArrayLength /\ jsArrayLength <= 9

\* Essence.fromHash: the state, Null for "no result", or Thrown
fromHash(hash, dataSources, visualizations) ==
  LET parts == hash.segments
  IN IF Len(parts) < 4 THEN Null
     ELSE
       LET version == parseInt(parts[3])
           parsed == JSON_parseArray(decompressFromBase64(SubSeq(parts, 4, Len(parts))))
       IN IF version # [n |-> 1] THEN Null
          ELSE IF parsed = Thrown THEN Null
          ELSE
            LET jsArray == parsed.array
                jsArrayLength == Len(jsArray)
            IN IF ~LegalLength(jsArrayLength) THEN Null
               ELSE
                 LET essence1 ==
                       fromJS([dataSource |-> SegmentText(parts[1]),
                               visualization |-> SegmentText(parts[2]),
                               timezone |-> At(jsArray, 0),
                               filter |-> At(jsArray, 1),
                               requiredFilter |-> At(jsArray, 2),
                               splits |-> At(jsArray, 3),
                               selectedMeasures |-> At(jsArray, 4),
                               pinnedDimensions |-> At(jsArray, 5),
                               pinnedSort |-> At(jsArray, 6),
                               colors |-> OrNull(At(jsArray, 7)),
                               compare |-> OrNull(At(jsArray, 8)),
                               highlight |-> OrNull(At(jsArray, 9))],
                              dataSources, visualizations)
                 IN IF essence1 = Thrown THEN Null ELSE essence1

OptionalEquals(a, b, eq(_, _)) ==
  /\ (a # Null) = (b # Null)
  /\ a = Null \/ eq(a, b)

Essence_equals(e, other) ==
  /\ IsEssence(other)
  /\ e.dataSource = other.dataSource
  /\ e.visualization.id = other.visualization.id
  /\ e.timezone = other.timezone
  /\ Filter_equals(e.filter, other.filter)
  /\ Filter_equals(e.requiredFilter, other.requiredFilter)
  /\ Splits_equals(e.splits, other.splits)
  /\ e.selectedMeasures = other.selectedMeasures
  /\ e.pinnedDimensions = other.pinnedDimensions
  /\ OptionalEquals(e.colors, other.colors, LAMBDA a, b : a = b)
  /\ e.pinnedSort = other.pinnedSort
  /\ OptionalEquals(e.compare, other.compare, Filter_equals)
  /\ OptionalEquals(e.highlight, other.highlight,
                    LAMBDA a, b : a.owner = b.owner /\ Filter_equals(a.delta, b.delta))

\* ------------------------------------------------------------------------
\* Essence: the change* operations; each yields the new state or Thrown
\* ------------------------------------------------------------------------

\* the branch of changeDataSource that updates the content of the dataset
\* on display
\* an update that leaves the catalog with the old entry
updateDataSource_KeepsCatalog(e, dataSource) ==
  LET dataSourceName == dataSource.name
      oldDataSource == e.dataSource
      dimensions == dataSource.dimensions
      timeAttribute == dataSource.timeAttribute
      value == valueOf(e)
  IN Essence_new(
       [value EXCEPT
          !.dataSource = dataSource,
          !.filter = Filter_constrainToDimensions(value.filter, dimensions,
                       timeAttribute, oldDataSource.timeAttribute),
          !.requiredFilter = Filter_constrainToDimensions(value.requiredFilter, dimensions,
                               timeAttribute, oldDataSource.timeAttribute),
          !.splits = Splits_constrainToDimensions(value.splits, dimensions),
          !.selectedMeasures = constrainMeasures(value.selectedMeasures, dataSource),
          !.pinnedDimensions = constrainDimensions(value.pinnedDimensions, dataSource),
          !.colors = IF value.colors # Null
                        /\ ~DataSource_getDimension(dataSource, value.colors.dimension)
                     THEN Null ELSE value.colors,
          !.pinnedSort = IF ~DataSource_getMeasure(dataSource, value.pinnedSort)
                         THEN dataSource.defaultSortMeasure ELSE value.pinnedSort,
          !.compare = IF value.compare # Null
                      THEN Filter_constrainToDimensions(value.compare, dimensions,
                             timeAttribute, NoAttribute)
                      ELSE value.compare,
          !.highlight = IF value.highlight # Null
                        THEN Highlight_constrainToDimensions(value.highlight, dimensions,
                               timeAttribute)
                        ELSE value.highlight])

updateDataSource(e, dataSource) ==
  LET dataSourceName == dataSource.name
      oldDataSource == e.dataSource
      dimensions == dataSource.dimensions
      timeAttribute == dataSource.timeAttribute
      value == valueOf(e)
  IN Essence_new(
       [value EXCEPT
          !.dataSource = dataSource,
          !.dataSources = [i \in 1..Len(e.dataSources) |->
                             IF e.dataSources[i].name = dataSourceName
                             THEN dataSource ELSE e.dataSources[i]],
          !.filter = Filter_constrainToDimensions(value.filter, dimensions,
                       timeAttribute, oldDataSource.timeAttribute),
          !.requiredFilter = Filter_constrainToDimensions(value.requiredFilter, dimensions,
                               timeAttribute, oldDataSource.timeAttribute),
          !.splits = Splits_constrainToDimensions(value.splits, dimensions),
          !.selectedMeasures = constrainMeasures(value.selectedMeasures, dataSource),
          !.pinnedDimensions = constrainDimensions(value.pinnedDimensions, dataSource),
          !.colors = IF value.colors # Null
                        /\ ~DataSource_getDimension(dataSource, value.colors.dimension)
                     THEN Null ELSE value.colors,
          !.pinnedSort = IF ~DataSource_getMeasure(dataSource, value.pinnedSort)
                         THEN dataSource.defaultSortMeasure ELSE value.pinnedSort,
          !.compare = IF value.compare # Null
                      THEN Filter_constrainToDimensions(value.compare, dimensions,
                             timeAttribute, NoAttribute)
                      ELSE value.compare,
          !.highlight = IF value.highlight # Null
                        THEN Highlight_constrainToDimensions(value.highlight, dimensions,
                               timeAttribute)
                        ELSE value.highlight])

\* a changeDataSource that rebuilds the default view on a content update
changeDataSource_UpdateDefaults(e, dataSource) ==
  IF FindDataSource(e.dataSources, dataSource.name) = Null THEN Thrown
  ELSE IF e.dataSource.name # dataSource.name
          /\ FindDataSource(e.dataSources, dataSource.name) # dataSource THEN Thrown
  ELSE fromDataSource(dataSource, e.dataSources, e.visualizations)

\* a changeDataSource that migrates the fields whatever the dataset
changeDataSource_AlwaysMigrates(e, dataSource) ==
  IF FindDataSource(e.dataSources, dataSource.name) = Null THEN Thrown
  ELSE updateDataSource(e, dataSource)

\* a changeDataSource that takes a dataset the catalog does not know
changeDataSource_UnknownAccepted(e, dataSource) ==
  IF FindDataSource(e.dataSources, dataSource.name) = dataSource
     \/ FindDataSource(e.dataSources, dataSource.name) = Null
  THEN fromDataSource(dataSource, e.dataSources, e.visualizations)
  ELSE IF e.dataSource.name # dataSource.name THEN Thrown
  ELSE updateDataSource(e, dataSource)

changeDataSource(e, dataSource) ==
  LET existingDataSource == FindDataSource(e.dataSources, dataSource.name)
  IN IF existingDataSource = Null THEN Thrown
     ELSE IF existingDataSource = dataSource
          THEN fromDataSource(dataSource, e.dataSources, e.visualizations)
     ELSE IF e.dataSource.name # dataSource.name THEN Thrown
     ELSE updateDataSource(e, dataSource)

\* a changeFilter that leaves the time splits that already have a bucket
changeFilter_NoForce(e, filter, removeHighlight) ==
  LET value == valueOf(e)
      timeAttribute == e.dataSource.timeAttribute
      oldTimeRange == IF timeAttribute # NoAttribute
                      THEN Filter_getTimeRange(e.filter, timeAttribute) ELSE Null
      newTimeRange == IF timeAttribute # NoAttribute
                      THEN Filter_getTimeRange(filter, timeAttribute) ELSE Null
  IN Essence_new(
       [value EXCEPT
          !.filter = filter,
          !.highlight = IF removeHighlight THEN Null ELSE value.highlight,
          !.splits = IF newTimeRange # Null /\ newTimeRange # oldTimeRange
                     THEN Splits_updateWithTimeRange(value.splits, timeAttribute,
                            newTimeRange, FALSE)
                     ELSE value.splits])

changeFilter(e, filter, removeHighlight) ==
  LET value == valueOf(e)
      timeAttribute == e.dataSource.timeAttribute
      oldTimeRange == IF timeAttribute # NoAttribute
                      THEN Filter_getTimeRange(e.filter, timeAttribute) ELSE Null
      newTimeRange == IF timeAttribute # NoAttribute
                      THEN Filter_getTimeRange(filter, timeAttribute) ELSE Null
  IN Essence_new(
       [value EXCEPT
          !.filter = filter,
          !.highlight = IF removeHighlight THEN Null ELSE value.highlight,
          !.splits = IF newTimeRange # Null /\ newTimeRange # oldTimeRange
                     THEN Splits_updateWithTimeRange(value.splits, timeAttribute,
                            newTimeRange, TRUE)
                     ELSE value.splits])

changeTimeRange(e, timeRange) ==
  changeFilter(e, Filter_setTimeRange(e.filter, e.dataSource.timeAttribute, timeRange), FALSE)

\* a changeSplits that follows the strategy of the caller in manual mode too
changeSplits_IgnoresManual(e, splits, strategy) ==
  LET timeAttribute == e.dataSource.timeAttribute
      splits1 == IF timeAttribute # NoAttribute
                 THEN Splits_updateWithTimeRange(splits, timeAttribute,
                        Filter_getTimeRange(e.filter, timeAttribute), FALSE)
                 ELSE splits
      visualization ==
        IF strategy # "KeepAlways"
        THEN getBestVisualization(e.visualizations, e.dataSource, splits1, e.colors,
               IF strategy = "FairGame" THEN Null ELSE e.visualization).visualization
        ELSE e.visualization
      value == valueOf(e)
  IN Essence_new(
       [value EXCEPT
          !.splits = splits1,
          !.visualization = visualization,
          !.filter = IF value.highlight # Null
                     THEN Highlight_applyToFilter(value.highlight, value.filter)
                     ELSE value.filter,
          !.highlight = Null])

\* a changeSplits that leaves a pending highlight where it is
changeSplits_KeepsHighlight(e, splits, strategy) ==
  LET timeAttribute == e.dataSource.timeAttribute
      splits1 == IF timeAttribute # NoAttribute
                 THEN Splits_updateWithTimeRange(splits, timeAttribute,
                        Filter_getTimeRange(e.filter, timeAttribute), FALSE)
                 ELSE splits
      strategy1 == IF Resolve_isManual(e.visResolve) THEN "KeepAlways" ELSE strategy
      visualization ==
        IF strategy1 # "KeepAlways"
        THEN getBestVisualization(e.visualizations, e.dataSource, splits1, e.colors,
               IF strategy1 = "FairGame" THEN Null ELSE e.visualization).visualization
        ELSE e.visualization
  IN Essence_new([valueOf(e) EXCEPT !.splits = splits1,
                                    !.visualization = visualization])

changeSplits(e, splits, strategy) ==
  LET timeAttribute == e.dataSource.timeAttribute
      splits1 == IF timeAttribute # NoAttribute
                 THEN Splits_updateWithTimeRange(splits, timeAttribute,
                        Filter_getTimeRange(e.filter, timeAttribute), FALSE)
                 ELSE splits
      strategy1 == IF Resolve_isManual(e.visResolve) THEN "KeepAlways" ELSE strategy
      visualization ==
        IF strategy1 # "KeepAlways"
        THEN getBestVisualization(e.visualizations, e.dataSource, splits1, e.colors,
               IF strategy1 = "FairGame" THEN Null ELSE e.visualization).visualization
        ELSE e.visualization
      value == valueOf(e)
  IN Essence_new(
       [value EXCEPT
          !.splits = splits1,
          !.visualization = visualization,
          !.filter = IF value.highlight # Null
                     THEN Highlight_applyToFilter(value.highlight, value.filter)
                     ELSE value.filter,
          !.highlight = Null])

changeSplit(e, splitCombine, strategy) ==
  changeSplits(e, Splits_fromSplitCombine(splitCombine), strategy)

addSplit(e, split, strategy) ==
  changeSplits(e, Splits_addSplit(e.splits, split), strategy)

removeSplit(e, split, strategy) ==
  changeSplits(e, Splits_removeSplit(e.splits, split), strategy)

changeColors(e, colors) == Essence_new([valueOf(e) EXCEPT !.colors = colors])

changeVisualization(e, visualization) ==
  Essence_new([valueOf(e) EXCEPT !.visualization = visualization])

pin(e, dimensionName) ==
  Essence_new([valueOf(e) EXCEPT
                 !.pinnedDimensions = OrderedSetAdd(e.pinnedDimensions, dimensionName)])

unpin(e, dimensionName) ==
  Essence_new([valueOf(e) EXCEPT
                 !.pinnedDimensions = OrderedSetRemove(e.pinnedDimensions, dimensionName)])

changePinnedSortMeasure(e, measureName) ==
  Essence_new([valueOf(e) EXCEPT !.pinnedSort = measureName])

\* a toggle that puts a new measure after the selected ones
toggleMeasure_AppendsNew(e, measureName) ==
  Essence_new(
    [valueOf(e) EXCEPT
       !.selectedMeasures =
          IF measureName \in Range(e.selectedMeasures)
          THEN OrderedSetRemove(e.selectedMeasures, measureName)
          ELSE IF DataSource_getMeasure(e.dataSource, measureName)
               THEN Append(e.selectedMeasures, measureName)
               ELSE e.selectedMeasures])

\* a toggle that never takes a measure out
toggleMeasure_NeverRemoves(e, measureName) ==
  Essence_new(
    [valueOf(e) EXCEPT
       !.selectedMeasures =
          OrderedSet(SeqFilterNames(e.dataSource.measures,
                       Range(e.selectedMeasures) \cup {measureName}))])

toggleMeasure(e, measureName) ==
  LET selectedMeasures == e.selectedMeasures
  IN Essence_new(
       [valueOf(e) EXCEPT
          !.selectedMeasures =
             IF measureName \in Range(selectedMeasures)
             THEN OrderedSetRemove(selectedMeasures, measureName)
             ELSE OrderedSet(SeqFilterNames(e.dataSource.measures,
                               Range(selectedMeasures) \cup {measureName}))])

\* an acceptHighlight that clears the highlight without folding it
acceptHighlight_Drops(e) ==
  IF e.highlight = Null THEN e
  ELSE Essence_new([valueOf(e) EXCEPT !.highlight = Null])

acceptHighlight(e) ==
  IF e.highlight = Null THEN e
  ELSE changeFilter(e, Highlight_applyToFilter(e.highlight, e.filter), TRUE)

\* a changeHighlight that never folds the pending highlight
changeHighlight_NeverFolds(e, owner, delta) ==
  Essence_new([valueOf(e) EXCEPT !.highlight = Highlight(owner, delta)])

changeHighlight(e, owner, delta) ==
  LET accepted == IF e.highlight # Null /\ e.highlight.owner # owner
                  THEN changeFilter(e, Highlight_applyToFilter(e.highlight, e.filter), FALSE)
                  ELSE e
  IN IF accepted = Thrown THEN Thrown
     ELSE Essence_new([valueOf(accepted) EXCEPT !.highlight = Highlight(owner, delta)])

\* a dropHighlight that folds the highlight into the filter
dropHighlight_Folds(e) ==
  Essence_new([valueOf(e) EXCEPT
                 !.filter = IF e.highlight # Null
                            THEN Highlight_applyToFilter(e.highlight, e.filter)
                            ELSE e.filter,
                 !.highlight = Null])

dropHighlight(e) == Essence_new([valueOf(e) EXCEPT !.highlight = Null])

\* the default of highlightId (null), which is no owner's id
DefaultHighlightId == "null"

getEffectiveFilter(e, highlightId) ==
  IF e.highlight # Null /\ highlightId # e.highlight.owner
  THEN Highlight_applyToFilter(e.highlight, e.filter)
  ELSE e.filter

\* ------------------------------------------------------------------------
\* The inputs the callers pass
\* ------------------------------------------------------------------------

TimeClause(start, end) == FilterClause("time", {TimeRange(start, end)}, FALSE, FALSE)

ClauseD2 == FilterClause("d2", {Value("z")}, TRUE, FALSE)

FilterInputs ==
  {Filter_EMPTY,
   Filter(<<ClauseD2>>),
   Filter(<<RequiredD1, TimeClause(1, 3)>>),
   Filter(<<RequiredD1, TimeClause(2, 3), ClauseD2>>)}

TimeRangeInputs == {TimeRange(1, 3), TimeRange(2, 3)}

SplitDimensions == {"time", "d2"}

RECURSIVE DistinctSeqs(_, _)
\* the sequences of distinct elements of S of length at most n
DistinctSeqs(S, n) ==
  IF n = 0 THEN {<<>>}
  ELSE LET shorter == DistinctSeqs(S, n - 1)
       IN shorter \cup UNION {{Append(q, x) : x \in S \ Range(q)} : q \in shorter}

SplitsInputs ==
  {Splits([i \in 1..Len(q) |-> SplitCombine_fromExpression(q[i])]) :
     q \in DistinctSeqs(SplitDimensions, MaxSplits)}

SplitCombineInputs == {SplitCombine_fromExpression(d) : d \in SplitDimensions}

VisStrategy == {"FairGame", "UnfairGame", "KeepAlways"}

ColorsInputs == {Null, Colors("d2")}

MeasureInputs == {"m1", "m2", "m3", "mX"}

SortMeasureInputs == {"m2", "mX"}

PinInputs == {"d2"}

UnpinInputs == {"d1", "d2"}

OwnerInputs == {"o1", "o2"}

DeltaInputs == {Filter(<<ClauseD2>>), Filter(<<TimeClause(0, 3)>>)}

\* the payload of a hash of the default view of "A"
DefaultPayload == toHash(fromDataSource(DataSourceA1, DataSources, Visualizations)).segments[4]

TamperedText ==
  LET text == DefaultPayload.base64
  IN [text EXCEPT ![5] = JSON_stringify(JNames(<<"m3", "mX", "m1", "m3">>)),
                  ![6] = JSON_stringify(JNames(<<"dX", "d2">>)),
                  ![7] = JSON_stringify(JString("mX"))]
       \o <<JSON_stringify(JColors(Colors_toJS(Colors("d2")))),
            JSON_stringify(JFilter(Filter_toJS(Filter(<<TimeClause(0, 1)>>))))>>

\* hashes a location bar can hold besides the hash of the current state
HashInputs ==
  {Hash(TRUE, <<Text("A"), Text("totals"), Text("1")>>),
   Hash(TRUE, <<Text("A"), Text("totals"), Text("2"), DefaultPayload>>),
   Hash(FALSE, <<Text("A"), Text("totals"), Text("v1"), DefaultPayload>>),
   Hash(TRUE, <<Text("A"), Text("totals"), Text("1"), Text("garbage")>>),
   Hash(TRUE, <<Text("A"), Text("totals"), Text("1"), Base64(<<BadJSON>>)>>),
   Hash(TRUE, <<Text("A"), Text("totals"), Text("1"),
                Base64(SubSeq(DefaultPayload.base64, 1, 5))>>),
   Hash(FALSE, <<Text("B"), Text("table"), Text("1x"),
                 Base64(SubSeq(DefaultPayload.base64, 1, 6))>>),
   Hash(TRUE, <<Text("U"), Text("totals"), Text("1"), DefaultPayload>>),
   Hash(TRUE, <<Text("A"), Text("nope"), Text("1"), DefaultPayload>>),
   Hash(FALSE, <<Text("A"), Text("nope"), Text("1"), Base64(TamperedText)>>),
   Hash(TRUE, <<Text("A"), Text("table"), Text("1"),
                Base64(SubSeq(TamperedText, 1, 4)),
                Base64(SubSeq(TamperedText, 5, Len(TamperedText)))>>)}

\* ------------------------------------------------------------------------
\* The state machine: the holder of the current state applies one operation
\* at a time and keeps the old state when the operation throws or yields
\* no result; base is the state the operation was applied to, as a holder
\* of it finds it afterwards
\* ------------------------------------------------------------------------

Outcome(result) ==
  IF result = Thrown THEN "throw" ELSE IF result = Null THEN "null" ELSE "ok"

\* a receiver whose valueOf() hands out the receiver itself, so that what
\* an operation assigns lands in the receiver
Receiver_Shared(e, result) == IF IsEssence(result) THEN result ELSE e

\* the receiver as its holder finds it after an operation that built
\* result: valueOf() copies the fields into a new object and the operations
\* assign to that object and to their locals only
Receiver(e, result) == e

Apply(name, argument, result) ==
  /\ steps < MaxSteps
  /\ steps' = steps + 1
  /\ op' = name
  /\ arg' = argument
  /\ outcome' = Outcome(result)
  /\ essence' = IF IsEssence(result) THEN result ELSE essence
  /\ base' = Receiver(essence, result)

\* the callers build filters, splits and colors from the dimensions of the
\* dataset on display
FilterOn(filter, dataSource) ==
  \A i \in 1..Len(filter.clauses) :
    DataSource_getDimension(dataSource, filter.clauses[i].expression)

SplitsOn(splits, dataSource) ==
  \A i \in 1..Len(splits.splitCombines) :
    DataSource_getDimension(dataSource, splits.splitCombines[i].expression)

\* the first state is built from a dataset of the catalog or decoded from
\* the hash in the location bar
Init ==
  /\ \/ \E i \in 1..Len(DataSources) :
          /\ essence = fromDataSource(DataSources[i], DataSources, Visualizations)
          /\ op = "fromDataSource"
          /\ arg = [dataSource |-> DataSources[i]]
     \/ \E hash \in HashInputs :
          /\ IsEssence(fromHash(hash, DataSources, Visualizations))
          /\ essence = fromHash(hash, DataSources, Visualizations)
          /\ op = "fromHash"
          /\ arg = [hash |-> hash]
  /\ base = essence
  /\ outcome = "ok"
  /\ steps = 0

FromHash ==
  \E hash \in HashInputs \cup {toHash(essence)} :
    Apply("fromHash", [hash |-> hash],
          fromHash(hash, essence.dataSources, essence.visualizations))

ChangeDataSource ==
  \E dataSource \in DataSourceInputs :
    Apply("changeDataSource",
          [dataSource |-> dataSource, from |-> essence.dataSource.name,
           entry |-> FindDataSource(essence.dataSources, dataSource.name)],
          changeDataSource(essence, dataSource))

ChangeFilter ==
  \E filter \in FilterInputs, removeHighlight \in BOOLEAN :
    /\ FilterOn(filter, essence.dataSource)
    /\ Apply("changeFilter", [filter |-> filter, removeHighlight |-> removeHighlight],
             changeFilter(essence, filter, removeHighlight))

ChangeTimeRange ==
  /\ essence.dataSource.timeAttribute # NoAttribute
  /\ \E timeRange \in TimeRangeInputs :
       Apply("changeTimeRange", [timeRange |-> timeRange],
             changeTimeRange(essence, timeRange))

ChangeSplits ==
  \E splits \in SplitsInputs, strategy \in VisStrategy :
    /\ SplitsOn(splits, essence.dataSource)
    /\ Apply("changeSplits", [splits |-> splits, strategy |-> strategy],
             changeSplits(essence, splits, strategy))

ChangeSplit ==
  \E splitCombine \in SplitCombineInputs, strategy \in VisStrategy :
    /\ DataSource_getDimension(essence.dataSource, splitCombine.expression)
    /\ Apply("changeSplit",
             [splits |-> Splits_fromSplitCombine(splitCombine), strategy |-> strategy],
             changeSplit(essence, splitCombine, strategy))

AddSplit ==
  \E split \in SplitCombineInputs, strategy \in VisStrategy :
    /\ DataSource_getDimension(essence.dataSource, split.expression)
    /\ Apply("addSplit",
             [splits |-> Splits_addSplit(essence.splits, split), strategy |-> strategy],
             addSplit(essence, split, strategy))

RemoveSplit ==
  \E i \in 1..Len(essence.splits.splitCombines), strategy \in VisStrategy :
    Apply("removeSplit",
          [splits |-> Splits_removeSplit(essence.splits, essence.splits.splitCombines[i]),
           strategy |-> strategy],
          removeSplit(essence, essence.splits.splitCombines[i], strategy))

ChangeColors ==
  \E colors \in ColorsInputs :
    /\ IF colors = Null THEN TRUE
       ELSE DataSource_getDimension(essence.dataSource, colors.dimension)
    /\ Apply("changeColors", [colors |-> colors], changeColors(essence, colors))

ChangeVisualization ==
  \E i \in 1..Len(essence.visualizations) :
    Apply("changeVisualization", [visualization |-> essence.visualizations[i]],
          changeVisualization(essence, essence.visualizations[i]))

Pin ==
  \E dimension \in PinInputs :
    /\ DataSource_getDimension(essence.dataSource, dimension)
    /\ Apply("pin", [dimension |-> dimension], pin(essence, dimension))

Unpin ==
  \E dimension \in UnpinInputs :
    Apply("unpin", [dimension |-> dimension], unpin(essence, dimension))

ChangePinnedSortMeasure ==
  \E measure \in SortMeasureInputs :
    Apply("changePinnedSortMeasure", [measure |-> measure],
          changePinnedSortMeasure(essence, measure))

ToggleMeasure ==
  \E measure \in MeasureInputs :
    Apply("toggleMeasure",
          [measure |-> measure, selected |-> measure \in Range(essence.selectedMeasures)],
          toggleMeasure(essence, measure))

AcceptHighlight ==
  Apply("acceptHighlight", [pending |-> essence.highlight # Null], acceptHighlight(essence))

ChangeHighlight ==
  \E owner \in OwnerInputs, delta \in DeltaInputs :
    /\ FilterOn(delta, essence.dataSource)
    /\ Apply("changeHighlight", [owner |-> owner, delta |-> delta],
             changeHighlight(essence, owner, delta))

DropHighlight ==
  Apply("dropHighlight", [pending |-> essence.highlight # Null], dropHighlight(essence))

Next ==
  \/ FromHash
  \/ ChangeDataSource
  \/ ChangeFilter
  \/ ChangeTimeRange
  \/ ChangeSplits
  \/ ChangeSplit
  \/ AddSplit
  \/ RemoveSplit
  \/ ChangeColors
  \/ ChangeVisualization
  \/ Pin
  \/ Unpin
  \/ ChangePinnedSortMeasure
  \/ ToggleMeasure
  \/ AcceptHighlight
  \/ ChangeHighlight
  \/ DropHighlight

Spec == Init /\ [][Next]_vars

\* ------------------------------------------------------------------------
\* Properties of the hash codec
\* ------------------------------------------------------------------------

Decoded(e) == fromHash(toHash(e), e.dataSources, e.visualizations)

\* every name the state holds resolves on its dataset
Constructible(e) ==
  /\ FilterOn(e.filter, e.dataSource)
  /\ FilterOn(e.requiredFilter, e.dataSource)
  /\ SplitsOn(e.splits, e.dataSource)
  /\ \A m \in Range(e.selectedMeasures) : DataSource_getMeasure(e.dataSource, m)
  /\ \A d \in Range(e.pinnedDimensions) : DataSource_getDimension(e.dataSource, d)
  /\ DataSource_getMeasure(e.dataSource, e.pinnedSort)
  /\ e.compare = Null \/ FilterOn(e.compare, e.dataSource)
  /\ e.highlight = Null \/ FilterOn(e.highlight.delta, e.dataSource)

\* C1: decoding the hash of a state whose names all resolve on its dataset
\* gives back a state equal to it, whichever of colors, compare and
\* highlight are set.
C1_RoundTrip == Constructible(essence) => Essence_equals(essence, Decoded(essence))

FewSegments(hash) == Len(hash.segments) < 4

BadVersion(hash) == ~FewSegments(hash) /\ parseInt(hash.segments[3]) # [n |-> HASH_VERSION]

Payload(hash) == SubSeq(hash.segments, 4, Len(hash.segments))

BadPayload(hash) ==
  /\ ~FewSegments(hash)
  /\ \/ \E i \in 1..Len(Payload(hash)) : "base64" \notin DOMAIN Payload(hash)[i]
     \/ \E i \in 1..Len(JoinBase64(Payload(hash))) : JoinBase64(Payload(hash))[i] = BadJSON

BadLength(hash) ==
  /\ ~FewSegments(hash) /\ ~BadPayload(hash)
  /\ Len(JoinBase64(Payload(hash))) \notin 6..9

Malformed(hash) ==
  FewSegments(hash) \/ BadVersion(hash) \/ BadPayload(hash) \/ BadLength(hash)

\* C2: fromHash yields no result, and does not throw, on a hash with fewer
\* than 4 segments, a version that is not 1, a payload that does not
\* decompress or parse, or a parsed array whose length is outside 6..9.
C2_MalformedYieldsNull ==
  (op = "fromHash" /\ Malformed(arg.hash)) => outcome = "null"

C2_ShortArrayRejected ==
  /\ op = "fromHash" /\ outcome = "null"
  /\ BadLength(arg.hash) /\ Len(JoinBase64(Payload(arg.hash))) < 6

UnknownDataSource(hash) ==
  /\ ~Malformed(hash)
  /\ \A i \in 1..Len(essence.dataSources) :
       essence.dataSources[i].name # SegmentText(hash.segments[1])

\* C3 as stated: a well-formed hash naming a dataset the catalog lacks makes
\* fromHash throw.
C3_UnknownDataSourceThrows ==
  (op = "fromHash" /\ UnknownDataSource(arg.hash)) => outcome = "throw"

\* C3: a well-formed hash naming a dataset the catalog lacks makes fromHash
\* yield no result, as a malformed hash does; nothing is thrown.
C3_UnknownDataSourceYieldsNull ==
  (op = "fromHash" /\ UnknownDataSource(arg.hash)) => outcome = "null"

C3_UnknownDataSourceDecoded ==
  op = "fromHash" /\ UnknownDataSource(arg.hash) /\ outcome = "null"

\* ------------------------------------------------------------------------
\* Properties of construction
\* ------------------------------------------------------------------------

OwnVerdict(e) ==
  Manifest_handleCircumstance(e.visualization, e.dataSource, e.splits, e.colors, TRUE)

\* C4 as stated: the cached verdict of every state is ready or manual.
C4_VerdictReadyOrManual ==
  Resolve_isReady(essence.visResolve) \/ Resolve_isManual(essence.visResolve)

\* the verdict of a visualization on the receiver's splits and colors, and
\* the verdict on what its adjustment leaves
FirstVerdict(visualization) ==
  Manifest_handleCircumstance(visualization, essence.dataSource, essence.splits,
                              essence.colors, TRUE)

SecondVerdict(visualization) ==
  Manifest_handleCircumstance(visualization, essence.dataSource,
                              FirstVerdict(visualization).adjustment.splits,
                              FirstVerdict(visualization).adjustment.colors, TRUE)

\* C4: the cached verdict of every state is the verdict of its visualization
\* on its own dataset, splits and colors and is never automatic (it is
\* ready, manual or never); a construction that adjusts does so once and
\* leaves a ready verdict, and changeVisualization and changeColors throw
\* only because the visualization is not ready after its one adjustment.
C4_VerdictSettled ==
  /\ essence.visResolve = OwnVerdict(essence)
  /\ ~Resolve_isAutomatic(essence.visResolve)
  /\ (op = "changeVisualization" /\ outcome = "throw")
       => /\ Resolve_isAutomatic(FirstVerdict(arg.visualization))
          /\ ~Resolve_isReady(SecondVerdict(arg.visualization))
  /\ (op = "changeVisualization" /\ outcome = "ok")
       => essence.visualization = arg.visualization
  /\ (op = "changeColors" /\ outcome = "throw")
       => LET first == Manifest_handleCircumstance(essence.visualization,
                         essence.dataSource, essence.splits, arg.colors, TRUE)
          IN /\ Resolve_isAutomatic(first)
             /\ ~Resolve_isReady(Manifest_handleCircumstance(essence.visualization,
                    essence.dataSource, first.adjustment.splits,
                    first.adjustment.colors, TRUE))

C4_Adjusted ==
  /\ op = "changeSplits" /\ outcome = "ok" /\ arg.strategy = "KeepAlways"
  /\ Len(arg.splits.splitCombines) > 0
  /\ essence.visualization.id = "totals"
  /\ essence.splits = Splits_EMPTY
  /\ Resolve_isReady(essence.visResolve)

\* ------------------------------------------------------------------------
\* Properties of changeDataSource
\* ------------------------------------------------------------------------

DefaultView(dataSource) ==
  fromDataSource(dataSource, essence.dataSources, essence.visualizations)

\* the dataset has the name of the one on display and differs from the
\* catalog entry of that name
IsContentUpdate(a) == a.from = a.dataSource.name /\ a.entry # a.dataSource

\* the dataset has another name than the one on display, and the catalog
\* has an entry of its name
IsSwitch(a) == a.from # a.dataSource.name /\ a.entry # Null

\* the fields of the receiver carried over to the dataset, each constrained
\* to it
Migrated(e, after, dataSource) ==
  /\ after.dataSource = dataSource
  /\ after.filter = Filter_constrainToDimensions(e.filter, dataSource.dimensions,
                      dataSource.timeAttribute, e.dataSource.timeAttribute)
  /\ after.requiredFilter =
       Filter_constrainToDimensions(e.requiredFilter, dataSource.dimensions,
         dataSource.timeAttribute, e.dataSource.timeAttribute)
  /\ after.selectedMeasures = constrainMeasures(e.selectedMeasures, dataSource)
  /\ after.pinnedDimensions = constrainDimensions(e.pinnedDimensions, dataSource)
  /\ after.pinnedSort = IF DataSource_getMeasure(dataSource, e.pinnedSort)
                        THEN e.pinnedSort ELSE dataSource.defaultSortMeasure
  /\ after.timezone = e.timezone
  /\ (after.compare = Null) = (e.compare = Null)
  /\ (after.highlight = Null) = (e.highlight = Null)

\* C5 as stated: changeDataSource with the dataset on display in an updated
\* content returns the default view of the dataset.
C5_UpdateReturnsDefaultView ==
  [][(op' = "changeDataSource" /\ IsContentUpdate(arg'))
       => (outcome' = "ok" /\ Essence_equals(essence', DefaultView(arg'.dataSource)))]_vars

\* C5: changeDataSource with a dataset equal to the catalog entry of its
\* name returns the default view of the dataset, dropping the filter and the
\* splits; with the dataset on display in a content that differs from the
\* catalog entry it carries the fields of the receiver over, each
\* constrained to the new content, unless construction throws.
C5_UpdateMigrates ==
  [][op' = "changeDataSource"
       => /\ arg'.entry = arg'.dataSource
               => (outcome' = "ok" /\ essence' = DefaultView(arg'.dataSource))
          /\ (IsContentUpdate(arg') /\ outcome' = "ok")
               => Migrated(essence, essence', arg'.dataSource)]_vars

C5_UpdatedNotDefault ==
  /\ op = "changeDataSource" /\ outcome = "ok" /\ IsContentUpdate(arg)
  /\ essence.dataSource = arg.dataSource
  /\ ~Essence_equals(essence, DefaultView(arg.dataSource))

\* C6 as stated: changeDataSource to a dataset of the catalog with another
\* name than the one on display carries the fields of the receiver over,
\* each constrained to the new dataset.
C6_SwitchMigrates ==
  [][(op' = "changeDataSource" /\ IsSwitch(arg'))
       => (outcome' = "ok" /\ Migrated(essence, essence', arg'.dataSource))]_vars

\* C6: changeDataSource to a dataset with another name than the one on
\* display returns the default view of that dataset, carrying nothing over,
\* when the dataset equals its catalog entry, and throws, leaving no new
\* state, when it differs from its catalog entry.
C6_SwitchReturnsDefaultView ==
  [][(op' = "changeDataSource" /\ IsSwitch(arg'))
       => IF arg'.entry = arg'.dataSource
          THEN outcome' = "ok" /\ essence' = DefaultView(arg'.dataSource)
          ELSE outcome' = "throw" /\ essence' = essence]_vars

C6_Switched ==
  /\ op = "changeDataSource" /\ outcome = "ok" /\ IsSwitch(arg)
  /\ essence = DefaultView(arg.dataSource)

NotInCatalog(dataSource) ==
  \A i \in 1..Len(essence.dataSources) : essence.dataSources[i].name # dataSource.name

\* C7: changeDataSource with a dataset whose name no catalog entry has throws
\* and leaves no new state.
C7_UnknownDataSourceThrows ==
  [][(op' = "changeDataSource" /\ NotInCatalog(arg'.dataSource))
       => (outcome' = "throw" /\ essence' = essence)]_vars

C7_UnknownRefused ==
  op = "changeDataSource" /\ NotInCatalog(arg.dataSource) /\ outcome = "throw"

\* ------------------------------------------------------------------------
\* Properties of the filter and of the selected measures
\* ------------------------------------------------------------------------

\* C8: the filter of every state holds every clause of the required filter.
C8_RequiredFilterApplied ==
  \A i \in 1..Len(essence.requiredFilter.clauses) :
    \E j \in 1..Len(essence.filter.clauses) :
      FilterClause_equals(essence.filter.clauses[j], essence.requiredFilter.clauses[i])

InDataSourceOrder(e) ==
  e.selectedMeasures = SeqFilterNames(e.dataSource.measures, Range(e.selectedMeasures))

ToggledTwice(e, measure) == toggleMeasure(toggleMeasure(e, measure), measure)

Unselected(e) == {m \in MeasureInputs : m \notin Range(e.selectedMeasures)}

\* C9 as stated: toggling an unselected measure twice gives back the selected
\* measures in their order.
C9_ToggleTwiceRestores ==
  \A m \in Unselected(essence) :
    ToggledTwice(essence, m).selectedMeasures = essence.selectedMeasures

\* C9: toggling an unselected measure twice gives back the same selected
\* names, arranged in the order the dataset declares its measures; the
\* ordered set is that of the receiver exactly when the receiver held its
\* selection in that order.
C9_ToggleTwiceRestoresMembers ==
  \A m \in Unselected(essence) :
    /\ IsEssence(ToggledTwice(essence, m))
    /\ Range(ToggledTwice(essence, m).selectedMeasures) = Range(essence.selectedMeasures)
    /\ InDataSourceOrder(ToggledTwice(essence, m))
    /\ (ToggledTwice(essence, m).selectedMeasures = essence.selectedMeasures)
         = InDataSourceOrder(essence)

C9_ToggledOff ==
  /\ op = "toggleMeasure" /\ outcome = "ok" /\ arg.selected
  /\ arg.measure \in Unselected(essence)
  /\ DataSource_getMeasure(essence.dataSource, arg.measure)
  /\ ToggledTwice(essence, arg.measure).selectedMeasures = essence.selectedMeasures

\* C10 as stated: the selected measures of every state are in the order the
\* dataset declares its measures.
C10_AlwaysInDataSourceOrder == InDataSourceOrder(essence)

\* C10: a toggleMeasure that adds a measure leaves the selected measures in
\* the order the dataset declares its measures, and a toggleMeasure that
\* removes one keeps them so; a decoded state holds them in the order of
\* its hash until then.
C10_ToggleOrders ==
  [][(op' = "toggleMeasure" /\ outcome' = "ok")
       => /\ ~arg'.selected => InDataSourceOrder(essence')
          /\ (arg'.selected /\ InDataSourceOrder(essence))
               => InDataSourceOrder(essence')]_vars

C10_Reordered ==
  /\ op = "toggleMeasure" /\ outcome = "ok" /\ ~arg.selected
  /\ arg.measure \in Range(essence.selectedMeasures)
  /\ essence.selectedMeasures[1] # arg.measure
  /\ essence.selectedMeasures[Len(essence.selectedMeasures)] # arg.measure

\* ------------------------------------------------------------------------
\* Properties of the highlight
\* ------------------------------------------------------------------------

\* C11: acceptHighlight on a state with a pending highlight returns a state
\* with no highlight whose filter is what getEffectiveFilter() with its
\* default arguments gave on the receiver; with no pending highlight it
\* returns the receiver.
C11_AcceptFoldsHighlight ==
  [][op' = "acceptHighlight"
       => /\ outcome' = "ok"
          /\ IF essence.highlight # Null
             THEN /\ essence'.highlight = Null
                  /\ Filter_equals(essence'.filter,
                                   getEffectiveFilter(essence, DefaultHighlightId))
             ELSE essence' = essence]_vars

C11_Accepted ==
  /\ op = "acceptHighlight" /\ outcome = "ok"
  /\ base.highlight # Null
  /\ essence.highlight = Null
  /\ ~Filter_equals(essence.filter, base.filter)
  /\ Filter_equals(essence.filter, getEffectiveFilter(base, DefaultHighlightId))

\* the fields of the state besides its highlight
BesidesHighlight(e) == [valueOf(e) EXCEPT !.highlight = Null]

\* C12: changeHighlight(owner, delta) returns a state whose highlight is
\* (owner, delta); when a highlight of another owner is pending, the filter
\* of the result is the filter of the receiver with that highlight folded
\* in; when none or one of the same owner is pending, the filter and every
\* other field are those of the receiver.
C12_ChangeHighlightFolds ==
  [][op' = "changeHighlight"
       => /\ outcome' = "ok"
          /\ essence'.highlight = Highlight(arg'.owner, arg'.delta)
          /\ IF essence.highlight # Null /\ essence.highlight.owner # arg'.owner
             THEN Filter_equals(essence'.filter,
                                Highlight_applyToFilter(essence.highlight, essence.filter))
             ELSE /\ Filter_equals(essence'.filter, essence.filter)
                  /\ BesidesHighlight(essence') = BesidesHighlight(essence)
                  /\ essence'.visResolve = essence.visResolve]_vars

C12_OtherOwnerFolded ==
  /\ op = "changeHighlight" /\ outcome = "ok"
  /\ base.highlight # Null
  /\ base.highlight.owner # arg.owner
  /\ essence.highlight = Highlight(arg.owner, arg.delta)
  /\ ~Filter_equals(essence.filter, base.filter)

SplitsOperations == {"changeSplits", "changeSplit", "addSplit", "removeSplit"}

\* C13: a changeSplits, changeSplit, addSplit or removeSplit that returns a
\* state returns one with no highlight; when a highlight was pending on the
\* receiver, the filter of the result is the filter of the receiver with the
\* delta of the highlight folded in, and else it is the receiver's filter.
C13_ChangeSplitsFoldsHighlight ==
  [][(op' \in SplitsOperations /\ outcome' = "ok")
       => /\ essence'.highlight = Null
          /\ Filter_equals(essence'.filter,
                IF essence.highlight # Null
                THEN Highlight_applyToFilter(essence.highlight, essence.filter)
                ELSE essence.filter)]_vars

C13_HighlightFolded ==
  /\ op \in SplitsOperations /\ outcome = "ok"
  /\ base.highlight # Null
  /\ essence.highlight = Null
  /\ ~Filter_equals(essence.filter, base.filter)
  /\ Filter_equals(essence.filter, Highlight_applyToFilter(base.highlight, base.filter))

\* ------------------------------------------------------------------------
\* Properties of the splits and of the resolution
\* ------------------------------------------------------------------------

\* C14: a changeSplits that returns a state keeps the visualization of the
\* receiver whenever the cached verdict of the receiver is manual, whatever
\* the strategy, and whenever the strategy is KeepAlways; the visualization
\* changes only under FairGame or UnfairGame on a receiver that is not in
\* manual mode.
C14_ManualKeepsVisualization ==
  [][(op' \in SplitsOperations /\ outcome' = "ok")
       => /\ (Resolve_isManual(essence.visResolve) \/ arg'.strategy = "KeepAlways")
               => essence'.visualization = essence.visualization
          /\ essence'.visualization # essence.visualization
               => /\ arg'.strategy \in {"FairGame", "UnfairGame"}
                  /\ ~Resolve_isManual(essence.visResolve)]_vars

C14_ManualStays ==
  /\ op = "changeSplits" /\ outcome = "ok" /\ arg.strategy = "FairGame"
  /\ Resolve_isManual(base.visResolve)
  /\ essence.visualization = base.visualization
  /\ essence.splits # base.splits
  /\ getBestVisualization(essence.visualizations, essence.dataSource, essence.splits,
                          essence.colors, Null).visualization # essence.visualization

\* the time range of the filter of the state on the time attribute of its
\* dataset, Null when it has none
TimeRangeOf(e) ==
  IF e.dataSource.timeAttribute = NoAttribute THEN Null
  ELSE Filter_getTimeRange(e.filter, e.dataSource.timeAttribute)

\* every split on the time attribute has the bucket of the time range
BoundTo(splits, timeAttribute, timeRange) ==
  \A i \in 1..Len(splits.splitCombines) :
    splits.splitCombines[i].expression = timeAttribute
      => splits.splitCombines[i].bucket = Granularity(timeRange)

SplitExpressions(splits) ==
  [i \in 1..Len(splits.splitCombines) |-> splits.splitCombines[i].expression]

\* C15: changeFilter and changeTimeRange return a state; when the new filter
\* has a time range on the time attribute of the dataset that is not the one
\* of the old filter, every split on the time attribute is bound to the new
\* range in the result and the other splits are the receiver's; when the
\* time range is the same (the filters differ in other clauses only), the
\* splits of the result are the splits of the receiver, as they are when
\* the new filter has no time range.
C15_TimeRangeRebindsSplits ==
  [][op' \in {"changeFilter", "changeTimeRange"}
       => /\ outcome' = "ok"
          /\ IF TimeRangeOf(essence') # Null /\ TimeRangeOf(essence') # TimeRangeOf(essence)
             THEN /\ BoundTo(essence'.splits, essence.dataSource.timeAttribute,
                             TimeRangeOf(essence'))
                  /\ SplitExpressions(essence'.splits) = SplitExpressions(essence.splits)
                  /\ \A i \in 1..Len(essence.splits.splitCombines) :
                       essence.splits.splitCombines[i].expression
                           # essence.dataSource.timeAttribute
                         => essence'.splits.splitCombines[i] = essence.splits.splitCombines[i]
             ELSE Splits_equals(essence'.splits, essence.splits)]_vars

C15_Rebound ==
  /\ op \in {"changeFilter", "changeTimeRange"} /\ outcome = "ok"
  /\ TimeRangeOf(essence) # Null
  /\ TimeRangeOf(essence) # TimeRangeOf(base)
  /\ HasSplitOn(base.splits, base.dataSource.timeAttribute)
  /\ BoundTo(essence.splits, essence.dataSource.timeAttribute, TimeRangeOf(essence))
  /\ ~Splits_equals(essence.splits, base.splits)

\* the verdict of the i-th visualization of the catalog
VerdictOf(visualizations, i, dataSource, splits, colors, current) ==
  Manifest_handleCircumstance(visualizations[i], dataSource, splits, colors,
                              visualizations[i] = current)

\* best is a visualization of the catalog with its verdict, no verdict
\* ranks before it, and every visualization before it in the catalog ranks
\* after it
RanksFirst(best, visualizations, verdicts) ==
  \E k \in 1..Len(visualizations) :
    /\ best.visualization = visualizations[k]
    /\ best.resolve = verdicts[k]
    /\ \A i \in 1..Len(visualizations) : Resolve_compare(verdicts[k], verdicts[i]) <= 0
    /\ \A i \in 1..(k - 1) : Resolve_compare(verdicts[k], verdicts[i]) < 0

RankedFirst(visualizations, dataSource, splits, colors, current) ==
  RanksFirst(getBestVisualization(visualizations, dataSource, splits, colors, current),
             visualizations,
             [i \in 1..Len(visualizations) |->
                VerdictOf(visualizations, i, dataSource, splits, colors, current)])

\* what the constructor and changeSplits pass as the current visualization
CurrentInputs(e) == {Null, e.visualization}

\* C16: on the dataset, the splits and the colors of any state, and on all
\* the splits a caller passes in a first state, with or without the
\* visualization of the state as the current one, getBestVisualization
\* returns a visualization of the catalog with its verdict on exactly these
\* inputs, such that no visualization of the catalog ranks before it under
\* Resolve.compare and every one that ranks the same comes after it in the
\* catalog.
C16_BestIsFirstOfBestRank ==
  \A splits \in {essence.splits} \cup (IF steps = 0 THEN SplitsInputs ELSE {}),
     current \in CurrentInputs(essence) :
    SplitsOn(splits, essence.dataSource)
      => RankedFirst(essence.visualizations, essence.dataSource, splits,
                     essence.colors, current)

\* a resolution under FairGame picked the earlier of two visualizations
\* whose verdicts rank the same
C16_TieToEarlier ==
  /\ op \in SplitsOperations /\ outcome = "ok" /\ arg.strategy = "FairGame"
  /\ ~Resolve_isManual(base.visResolve)
  /\ essence.visualization # base.visualization
  /\ essence.visualization =
       getBestVisualization(essence.visualizations, essence.dataSource, essence.splits,
                            essence.colors, Null).visualization
  /\ \E i, j \in 1..Len(essence.visualizations) :
       /\ i < j
       /\ essence.visualization = essence.visualizations[i]
       /\ Resolve_compare(
            VerdictOf(essence.visualizations, i, essence.dataSource, essence.splits,
                      essence.colors, Null),
            VerdictOf(essence.visualizations, j, essence.dataSource, essence.splits,
                      essence.colors, Null)) = 0

\* ------------------------------------------------------------------------
\* Properties of the measures, of the constraints and of the receiver
\* ------------------------------------------------------------------------

\* C17: toggleMeasure and changePinnedSortMeasure throw, and leave no new
\* state, when the dataset of the receiver has no measure of the name they
\* are given.
C17_UnknownMeasureThrows ==
  [][(/\ op' \in {"toggleMeasure", "changePinnedSortMeasure"}
      /\ ~DataSource_getMeasure(essence.dataSource, arg'.measure))
       => (outcome' = "throw" /\ essence' = essence)]_vars

\* the position of a name in an ordered set
IndexOf(s, x) == CHOOSE i \in 1..Len(s) : s[i] = x

\* kept holds exactly the names of names that belong to known, once each
\* and in the order names has them, and constraining it again gives again
\* back what it holds
KeepsInOrder(names, kept, known, again) ==
  /\ Range(kept) = Range(names) \cap known
  /\ \A i, j \in 1..Len(kept) :
       i < j => IndexOf(names, kept[i]) < IndexOf(names, kept[j])
  /\ again = kept

\* name sets a hash or a caller can hold besides those of the state; they
\* are the same in every state and are tried in the first one
DimensionSetInputs == {<<"d2", "dX", "d1">>, <<"dX">>, <<"time", "d2">>}

MeasureSetInputs == {<<"m3", "mX", "m1", "m2">>, <<"mX">>}

\* C18: for the name sets above and those of any state, and every dataset,
\* constrainDimensions and constrainMeasures give exactly the names that the
\* dataset resolves, in the order of their input, and give their own result
\* back when applied to it again.
C18_ConstrainKeepsResolvedInOrder ==
  \A dataSource \in DataSourceInputs :
    /\ \A S \in (IF steps = 0 THEN DimensionSetInputs ELSE {})
                  \cup {essence.pinnedDimensions} :
         KeepsInOrder(S, constrainDimensions(S, dataSource), Range(dataSource.dimensions),
                      constrainDimensions(constrainDimensions(S, dataSource), dataSource))
    /\ \A S \in (IF steps = 0 THEN MeasureSetInputs ELSE {})
                  \cup {essence.selectedMeasures} :
         KeepsInOrder(S, constrainMeasures(S, dataSource), Range(dataSource.measures),
                      constrainMeasures(constrainMeasures(S, dataSource), dataSource))

\* an update of the dataset took measures out of the selection and left
\* the others in the order of the selection, which is not the dataset's
C18_Constrained ==
  /\ op = "changeDataSource" /\ outcome = "ok" /\ IsContentUpdate(arg)
  /\ essence.selectedMeasures = constrainMeasures(base.selectedMeasures, essence.dataSource)
  /\ essence.selectedMeasures # base.selectedMeasures
  /\ Len(essence.selectedMeasures) > 1
  /\ ~InDataSourceOrder(essence)

\* C19: the pinned sort of every state names a measure of the dataset of the
\* state or is the default sort measure of that dataset.
C19_PinnedSortResolves ==
  \/ DataSource_getMeasure(essence.dataSource, essence.pinnedSort)
  \/ essence.pinnedSort = essence.dataSource.defaultSortMeasure

C21_TimeSplitsBoundToOwnFilter ==
  (/\ op = "changeSplits" /\ outcome = "ok"
   /\ TimeRangeOf(essence) # Null)
    => BoundTo(essence.splits, essence.dataSource.timeAttribute, TimeRangeOf(essence))

\* the one field each of these operations is about
OwnField(name) ==
  CASE name \in {"pin", "unpin"} -> "pinnedDimensions"
    [] name = "changePinnedSortMeasure" -> "pinnedSort"
    [] name = "toggleMeasure" -> "selectedMeasures"
    [] name = "dropHighlight" -> "highlight"

OneFieldOperations ==
  {"pin", "unpin", "changePinnedSortMeasure", "toggleMeasure", "dropHighlight"}

\* C22: pin, unpin, changePinnedSortMeasure, toggleMeasure and dropHighlight
\* return a state that differs from the receiver in their own field at most
\* (pinned dimensions, pinned sort, selected measures, highlight): dataset,
\* visualization, filter, splits, colors and cached verdict are the
\* receiver's, and dropHighlight leaves no highlight and the filter as it
\* was.
C22_OnlyOwnFieldChanges ==
  [][op' \in OneFieldOperations
       => /\ outcome' = "ok"
          /\ \A f \in DOMAIN essence : f # OwnField(op') => essence'[f] = essence[f]
          /\ op' = "dropHighlight"
               => (essence'.highlight = Null /\ Filter_equals(essence'.filter, essence.filter))]_vars

\* a pending highlight whose delta would change the filter was dropped
C22_DroppedUnfolded ==
  /\ op = "dropHighlight" /\ outcome = "ok"
  /\ base.highlight # Null
  /\ ~Filter_equals(getEffectiveFilter(base, DefaultHighlightId), base.filter)
  /\ essence.highlight = Null
  /\ Filter_equals(essence.filter, base.filter)
  /\ essence.visResolve = base.visResolve

\* a hash that decodes, names a dataset of the catalog and a visualization
\* the catalog has not
UnknownVisualization(hash) ==
  /\ ~Malformed(hash)
  /\ \E i \in 1..Len(essence.dataSources) :
       essence.dataSources[i].name = SegmentText(hash.segments[1])
  /\ \A i \in 1..Len(essence.visualizations) :
       essence.visualizations[i].id # SegmentText(hash.segments[2])

\* the splits and the colors fromJS hands to the constructor
DecodedArray(hash) == JSON_parseArray(decompressFromBase64(Payload(hash))).array

DecodedSplits(hash, dataSource) ==
  Splits_constrainToDimensions(
    Splits_fromJS(At(DecodedArray(hash), 3).splitsJS), dataSource.dimensions)

DecodedColors(hash) ==
  LET colors == OrNull(At(DecodedArray(hash), 7))
  IN IF Falsy(colors) THEN Null ELSE Colors_fromJS(colors.colorsJS)

\* C23: fromHash on a hash that decodes, names a dataset of the catalog and
\* a visualization the catalog has not returns a state on that dataset whose
\* visualization is the pick of getBestVisualization for the decoded splits
\* and colors with no current visualization.
C23_UnknownVisualizationResolved ==
  (op = "fromHash" /\ UnknownVisualization(arg.hash))
    => /\ outcome = "ok"
       /\ essence.dataSource.name = SegmentText(arg.hash.segments[1])
       /\ essence.visualization =
            getBestVisualization(essence.visualizations, essence.dataSource,
                                 DecodedSplits(arg.hash, essence.dataSource),
                                 DecodedColors(arg.hash), Null).visualization

C23_PickedBest ==
  /\ op = "fromHash" /\ outcome = "ok"
  /\ UnknownVisualization(arg.hash)
  /\ DecodedColors(arg.hash) # Null
  /\ essence.visualization \in Range(essence.visualizations)
  /\ essence.visualization # essence.visualizations[1]

====
